---- MODULE Spec2Model ----
(***************************************************************************)
(* Model of src/iot_controller/actuator.py: RelayController,               *)
(* MotorController, SensorController and PestManagementSystem.             *)
(*                                                                         *)
(* Numbers: a confidence is an integer percentage (0.8 is 80), a servo     *)
(* angle is an integer number of degrees, a duration is an integer number  *)
(* of time units and `now` counts those units.                             *)
(*                                                                         *)
(* Every step writes lastCall, a label of the operation that made the      *)
(* step with its arguments, and lastLog, the logger.error record the step  *)
(* produced ("none" when it logged no error), so that a property can speak *)
(* of "the step in which activate_relay(c, d) ran"; lastRaised is the      *)
(* exception that propagated out of the call to its caller.  A relay       *)
(* label also holds `was`, get_relay_state(pin) just before the step.      *)
(* The steps of PestManagementSystem and its threads share one label; what *)
(* they did is read from the queue, the workers and execLog.               *)
(***************************************************************************)
EXTENDS Integers, Sequences, FiniteSets, Bags, TLC

VARIABLES
    relay_states,      \* RelayController.relay_states: pin -> bool
    timers,            \* pending threading.Timer objects: a bag of [pin, due]
    now,               \* the clock the timers run on
    current_position,  \* MotorController.current_position
    is_moving,         \* MotorController.is_moving
    stepper,           \* the move_stepper call in progress, if any
    sensor_running,    \* SensorController.running
    sensor_threads,    \* SensorController.sensor_threads: name -> whether it holds a thread
    sensor_data,       \* SensorController.sensor_data: name -> last stored reading
    monitors,          \* live threads running _monitor_sensor: a bag of
                       \* [sensor, pc: where it is, reading: the one it is about to store]
    constructed,       \* PestManagementSystem.__init__ has returned an object
    pest_thresholds,   \* PestManagementSystem.config['pest_thresholds']
    is_running,        \* PestManagementSystem.is_running
    actions,           \* every action object handed to add_action so far
    action_queue,      \* PestManagementSystem.action_queue (indices into actions)
    trigger,           \* the trigger_pest_response call in progress or last made
    workers,           \* live threads running _process_actions: a bag of
                       \* [pc: where it is, act: the action it holds (0: none)]
    execLog,           \* order in which _execute_action was entered
    halted,            \* emergency_shutdown has executed and start_system has
                       \* not been called since
    policyCalls,       \* results of the risk policy applied so far
    lastCall,          \* label of the last step
    lastLog,           \* logger.error record of the last step
    lastRaised         \* exception that left the last call ("none": it returned)

vars == << relay_states, timers, now, current_position, is_moving, stepper,
           sensor_running, sensor_threads, sensor_data, monitors,
           constructed, pest_thresholds, is_running,
           actions, action_queue, trigger, workers, execLog, halted,
           policyCalls, lastCall, lastLog, lastRaised >>

relayVars  == << relay_states, timers, now >>
motorVars  == << current_position, is_moving, stepper >>
sensorVars == << sensor_running, sensor_threads, sensor_data, monitors >>
configVars == << constructed, pest_thresholds >>
queueVars  == << actions, action_queue, trigger >>
workerVars == << workers, execLog, halted >>
systemVars == << is_running, queueVars, workerVars >>

----------------------------------------------------------------------------
(* Bounds of the model *)

MaxTime     == 3    \* the clock stops here; no timer is set beyond it
MaxDuration == 2    \* longest duration given to a direct activate_relay call
MaxTimers   == 2    \* pending timers at any time
MaxSteps    == 2    \* longest move_stepper call
MaxTravel   == 3    \* how far the stepper may leave the servo's range
MaxWorkers  == 2    \* worker threads alive at a time
MaxMonitors == 2    \* threads alive at a time polling one sensor
MaxActions  == 2    \* action objects handed to add_action
MaxPolicyCalls == 2 \* risk-policy applications recorded

----------------------------------------------------------------------------
(* Configuration: PestManagementSystem._load_config's default_config.      *)

RelayPins == {18, 19, 20, 21}

SensorNames == {"temperature", "humidity", "soil_moisture", "light"}

DefaultThresholds == [high_risk |-> 80, medium_risk |-> 50, low_risk |-> 30]

\* duration = None: the default of activate_relay's parameter
NoDuration == -1

\* the channel numbers the dispatcher passes to activate_relay
PumpRelay == 0
TrapRelay == 1

\* a thread running _process_actions: where it is and the action it holds
Worker(pc, act) == [pc |-> pc, act |-> act]

\* the bag holding x once
BagOf(x) == SetToBag({x})

\* the label of a step of PestManagementSystem or of one of its threads
SystemStep == [op |-> "system"]

\* values of an object that has not been used yet
NoCall == [op |-> "none"]
NoStepper == [active |-> FALSE, left |-> 0, direction |-> 0]
NoTrigger == [confidence |-> -1, pest_type |-> "none", location |-> << >>,
              pending |-> << >>, put |-> << >>]

----------------------------------------------------------------------------
(* RelayController *)

\* an `if duration is not None:` in place of `if duration:`
Truthy_zero_counts(duration) == duration # NoDuration

\* `if duration:` - None and 0 are falsy
Truthy(duration) == duration # NoDuration /\ duration # 0

\* activate_relay that does not record the new state
activate_relay_state_not_recorded(states, tmrs, t, pin, duration) ==
    IF pin \notin RelayPins
    THEN [states |-> states, timers |-> tmrs,
          log |-> "Error activating relay", raised |-> "none"]
    ELSE [states |-> states,
          timers |-> IF Truthy(duration)
                     THEN tmrs (+) SetToBag({[pin |-> pin, due |-> t + duration]})
                     ELSE tmrs,
          log |-> "none", raised |-> "none"]

\* activate_relay that builds its Timer and never starts it
activate_relay_timer_not_started(states, tmrs, t, pin, duration) ==
    IF pin \notin RelayPins
    THEN [states |-> states, timers |-> tmrs,
          log |-> "Error activating relay", raised |-> "none"]
    ELSE [states |-> [states EXCEPT ![pin] = TRUE], timers |-> tmrs,
          log |-> "none", raised |-> "none"]

\* activate_relay without the `pin not in self.relay_pins` check
activate_relay_unchecked(states, tmrs, t, pin, duration) ==
    [states |-> [p \in DOMAIN states \cup {pin} |->
                    IF p = pin THEN TRUE ELSE states[p]],
     timers |-> IF Truthy(duration)
                THEN tmrs (+) SetToBag({[pin |-> pin, due |-> t + duration]})
                ELSE tmrs,
     log |-> "none", raised |-> "none"]

\* activate_relay that cancels the pending timers of the channel before it
\* starts the new one
activate_relay_rescheduling(states, tmrs, t, pin, duration) ==
    IF pin \notin RelayPins
    THEN [states |-> states, timers |-> tmrs,
          log |-> "Error activating relay", raised |-> "none"]
    ELSE [states |-> [states EXCEPT ![pin] = TRUE],
          timers |-> IF Truthy(duration)
                     THEN [x \in {y \in BagToSet(tmrs) : y.pin # pin} |->
                              tmrs[x]]
                          (+) SetToBag({[pin |-> pin, due |-> t + duration]})
                     ELSE tmrs,
          log |-> "none", raised |-> "none"]

\* activate_relay: the state after the call, the error it logged and the
\* exception it let through.  gpio is None in every RelayController this
\* program builds (line 321), so the gpio.output branches do not run.
activate_relay(states, tmrs, t, pin, duration) ==
    IF pin \notin RelayPins
    THEN [states |-> states, timers |-> tmrs,
          log |-> "Error activating relay", raised |-> "none"]
    ELSE [states |-> [states EXCEPT ![pin] = TRUE],
          timers |-> IF Truthy(duration)
                     THEN tmrs (+) SetToBag({[pin |-> pin, due |-> t + duration]})
                     ELSE tmrs,
          log |-> "none", raised |-> "none"]

\* deactivate_relay that treats an already inactive channel as an error
deactivate_relay_strict(states, pin) ==
    IF pin \notin RelayPins \/ ~states[pin]
    THEN [states |-> states,
          log |-> "Error deactivating relay", raised |-> "none"]
    ELSE [states |-> [states EXCEPT ![pin] = FALSE],
          log |-> "none", raised |-> "none"]

deactivate_relay(states, pin) ==
    IF pin \notin RelayPins
    THEN [states |-> states,
          log |-> "Error deactivating relay", raised |-> "none"]
    ELSE [states |-> [states EXCEPT ![pin] = FALSE],
          log |-> "none", raised |-> "none"]

\* self.relay_states.get(pin, False)
StateOf(states, pin) == IF pin \in DOMAIN states THEN states[pin] ELSE FALSE

get_relay_state(pin) == StateOf(relay_states, pin)

\* RelayController.cleanup with gpio = None: relay_states is not written
cleanup(states) == states

\* a timer may be created only if it can fire before the clock stops
TimerFits(tmrs) ==
    tmrs # timers =>
        /\ BagCardinality(tmrs) <= MaxTimers
        /\ \A timer \in BagToSet(tmrs) : timer.due <= MaxTime

\* a direct call relay_controller.activate_relay(pin, duration)
ActivateRelay(pin, duration) ==
    /\ LET r == activate_relay(relay_states, timers, now, pin, duration) IN
         /\ TimerFits(r.timers)
         /\ relay_states' = r.states
         /\ timers' = r.timers
         /\ lastLog' = r.log
         /\ lastRaised' = r.raised
    /\ lastCall' = [op |-> "activate_relay", pin |-> pin, duration |-> duration,
                    was |-> get_relay_state(pin)]
    /\ UNCHANGED << now, motorVars, sensorVars, configVars, systemVars,
                    policyCalls >>

\* a direct call relay_controller.deactivate_relay(pin)
DeactivateRelay(pin) ==
    /\ LET r == deactivate_relay(relay_states, pin) IN
         /\ relay_states' = r.states
         /\ lastLog' = r.log
         /\ lastRaised' = r.raised
    /\ lastCall' = [op |-> "deactivate_relay", pin |-> pin,
                    was |-> get_relay_state(pin)]
    /\ UNCHANGED << timers, now, motorVars, sensorVars, configVars,
                    systemVars, policyCalls >>

\* threading.Timer(duration, lambda: self.deactivate_relay(pin)) fires
TimerFire(timer) ==
    /\ BagIn(timer, timers)
    /\ timer.due <= now
    /\ LET r == deactivate_relay(relay_states, timer.pin) IN
         /\ relay_states' = r.states
         /\ lastLog' = r.log
         /\ lastRaised' = r.raised
    /\ timers' = timers (-) SetToBag({timer})
    /\ lastCall' = [op |-> "timer", pin |-> timer.pin,
                    was |-> get_relay_state(timer.pin)]
    /\ UNCHANGED << now, motorVars, sensorVars, configVars, systemVars,
                    policyCalls >>

\* time passes; a timer fires when it is due, before the clock moves on
Tick ==
    /\ now < MaxTime
    /\ \A timer \in BagToSet(timers) : timer.due > now
    /\ now' = now + 1
    /\ lastCall' = [op |-> "tick"]
    /\ lastLog' = "none"
    /\ lastRaised' = "none"
    /\ UNCHANGED << relay_states, timers, motorVars, sensorVars,
                    configVars, systemVars, policyCalls >>

----------------------------------------------------------------------------
(* MotorController *)

\* move_servo without the range check
move_servo_unchecked(position, angle) ==
    [position |-> angle, log |-> "none", raised |-> "none"]

\* move_servo: the position after the call, the error it logged and the
\* exception it let through
move_servo(position, angle) ==
    IF ~(0 <= angle /\ angle <= 180)
    THEN [position |-> position,
          log |-> "Error moving servo motor", raised |-> "none"]
    ELSE [position |-> angle, log |-> "none", raised |-> "none"]

get_position == current_position

\* a direct call motor_controller.move_servo(angle)
MoveServo(angle) ==
    /\ LET r == move_servo(current_position, angle) IN
         /\ current_position' = r.position
         /\ lastLog' = r.log
         /\ lastRaised' = r.raised
    /\ lastCall' = [op |-> "move_servo", angle |-> angle,
                    was |-> current_position]
    /\ UNCHANGED << is_moving, stepper, relayVars, sensorVars,
                    configVars, systemVars, policyCalls >>

\* move_stepper(steps, direction) up to the first step: is_moving = True.
\* One move_stepper call is in progress at a time, and the position stays
\* within MaxTravel of the servo's range.
MoveStepperBegin(steps, direction) ==
    /\ stepper = NoStepper
    /\ current_position + steps * direction >= 0 - MaxTravel
    /\ current_position + steps * direction <= 180 + MaxTravel
    /\ is_moving' = TRUE
    /\ stepper' = [active |-> TRUE, left |-> steps, direction |-> direction]
    /\ lastCall' = [op |-> "move_stepper", steps |-> steps,
                    direction |-> direction]
    /\ lastLog' = "none"
    /\ lastRaised' = "none"
    /\ UNCHANGED << current_position, relayVars, sensorVars, configVars,
                    systemVars, policyCalls >>

\* one pass of `for step in range(steps)`
StepperStep ==
    /\ stepper.active
    /\ stepper.left > 0
    /\ current_position' = current_position + stepper.direction
    /\ stepper' = [stepper EXCEPT !.left = @ - 1]
    /\ lastCall' = [op |-> "stepper_step"]
    /\ lastLog' = "none"
    /\ lastRaised' = "none"
    /\ UNCHANGED << is_moving, relayVars, sensorVars, configVars,
                    systemVars, policyCalls >>

\* the loop of move_stepper is over: is_moving = False, and the call returns
MoveStepperEnd ==
    /\ stepper.active
    /\ stepper.left = 0
    /\ is_moving' = FALSE
    /\ stepper' = NoStepper
    /\ lastCall' = [op |-> "move_stepper_return"]
    /\ lastLog' = "none"
    /\ lastRaised' = "none"
    /\ UNCHANGED << current_position, relayVars, sensorVars, configVars,
                    systemVars, policyCalls >>

----------------------------------------------------------------------------
(* SensorController *)

\* the order in which start_sensor_monitoring walks sensor_configs
SensorOrder == << "temperature", "humidity", "soil_moisture", "light" >>

\* config.get('unit', '') of each configured sensor
SensorUnit ==
    [temperature |-> "C", humidity |-> "%", soil_moisture |-> "%",
     light |-> "lux"]

\* a thread running _monitor_sensor: its sensor, where it is, and the dict
\* it has built and not yet stored
Monitor(sensor, pc, reading) ==
    [sensor |-> sensor, pc |-> pc, reading |-> reading]

NoReading == [status |-> "none"]

\* the dict built after _read_sensor returned; the timestamp is taken while
\* the dict is built, before it is stored
ok_reading(sensor, t) ==
    [value |-> "measured", timestamp |-> t, unit |-> SensorUnit[sensor],
     status |-> "ok"]

\* the dict built in the except clause
error_reading(sensor, t) ==
    [value |-> "None", timestamp |-> t, unit |-> SensorUnit[sensor],
     status |-> "error", error |-> "str(e)"]

\* self.sensor_data[sensor_name] = reading
store_reading(data, sensor, reading) ==
    [x \in DOMAIN data \cup {sensor} |->
        IF x = sensor THEN reading ELSE data[x]]

\* get_all_sensor_data without the readings in error
get_all_sensor_data_ok_only(data) ==
    [x \in {y \in DOMAIN data : data[y].status = "ok"} |-> data[x]]

\* get_all_sensor_data: self.sensor_data.copy()
get_all_sensor_data(data) == data

\* the live threads polling one sensor
LiveMonitors(mons, sensor) ==
    BagCardinality([m \in {x \in BagToSet(mons) : x.sensor = sensor} |->
                       mons[m]])

\* start_sensor_monitoring's loop up to and including its n-th sensor: one
\* new thread each, whether or not an earlier thread of that sensor lives
spawn_monitors(mons, n) ==
    mons (+) SetToBag({ Monitor(SensorOrder[i], "loop", NoReading) :
                        i \in 1..n })

\* self.sensor_threads[sensor_name] = thread, for the first n sensors
register_threads(threads, n) ==
    [s \in SensorNames |->
        threads[s] \/ \E i \in 1..n : SensorOrder[i] = s]

MonitorsFit ==
    \A s \in SensorNames : LiveMonitors(monitors, s) < MaxMonitors

\* a _monitor_sensor without its except clause: a failed read ends the thread
after_read_uncaught(sensor, fails, t) ==
    IF fails THEN EmptyBag
    ELSE BagOf(Monitor(sensor, "store", ok_reading(sensor, t)))

\* the thread after _read_sensor returned or raised: it holds the dict of
\* the try branch or of the except branch
after_read(sensor, fails, t) ==
    BagOf(Monitor(sensor, "store",
                  IF fails THEN error_reading(sensor, t)
                  ELSE ok_reading(sensor, t)))

\* _monitor_sensor: `while self.running`, then _read_sensor and the dict with
\* its timestamp; a thread that finds the flag cleared returns
MonitorPoll(m, fails) ==
    /\ BagIn(m, monitors)
    /\ m.pc = "loop"
    /\ IF sensor_running
       THEN /\ monitors' = (monitors (-) BagOf(m))
                             (+) after_read(m.sensor, fails, now)
            /\ lastLog' = IF fails THEN "Error reading sensor" ELSE "none"
       ELSE /\ monitors' = monitors (-) BagOf(m)
            /\ lastLog' = "none"
    /\ lastCall' = [op |-> "monitor_sensor", sensor |-> m.sensor]
    /\ lastRaised' = "none"
    /\ UNCHANGED << relayVars, motorVars, sensor_running, sensor_threads,
                    sensor_data, configVars, systemVars, policyCalls >>

\* _monitor_sensor: the dict is stored, then the thread sleeps and goes
\* round its loop
MonitorStore(m) ==
    /\ BagIn(m, monitors)
    /\ m.pc = "store"
    /\ sensor_data' = store_reading(sensor_data, m.sensor, m.reading)
    /\ monitors' = (monitors (-) BagOf(m))
                     (+) BagOf(Monitor(m.sensor, "loop", NoReading))
    /\ lastCall' = [op |-> "monitor_sensor", sensor |-> m.sensor]
    /\ lastLog' = "none"
    /\ lastRaised' = "none"
    /\ UNCHANGED << relayVars, motorVars, sensor_running, sensor_threads,
                    configVars, systemVars, policyCalls >>

----------------------------------------------------------------------------
(* PestManagementSystem: the risk policy of trigger_pest_response *)

\* the if/elif chain with > in place of >=
risk_tier_strict(confidence, thresholds) ==
    IF confidence > thresholds.high_risk THEN "high"
    ELSE IF confidence > thresholds.medium_risk THEN "medium"
    ELSE "low"

\* the if/elif chain with its first comparison turned round
risk_tier_turned(confidence, thresholds) ==
    IF confidence <= thresholds.high_risk THEN "high"
    ELSE IF confidence >= thresholds.medium_risk THEN "medium"
    ELSE "low"

\* the branch the if/elif chain of trigger_pest_response takes
risk_tier(confidence, thresholds) ==
    IF confidence >= thresholds.high_risk THEN "high"
    ELSE IF confidence >= thresholds.medium_risk THEN "medium"
    ELSE "low"

\* the `actions` list each branch builds
tier_actions(tier) ==
    CASE tier = "high" ->
           << [type |-> "spray_pesticide", duration |-> 10],
              [type |-> "activate_trap", duration |-> 60] >>
      [] tier = "medium" ->
           << [type |-> "spray_pesticide", duration |-> 5],
              [type |-> "activate_trap", duration |-> 30] >>
      [] OTHER ->
           << [type |-> "activate_trap", duration |-> 15] >>

response_actions(confidence, thresholds) ==
    tier_actions(risk_tier(confidence, thresholds))

----------------------------------------------------------------------------
(* PestManagementSystem: queue, producers, dispatcher *)

\* action.get(key, default) on a dict
ActionGet(action, key, default) ==
    IF key \in DOMAIN action THEN action[key] ELSE default

\* an action object that is not a dict has no .get
IsDict(action) == "not_a_dict" \notin DOMAIN action

\* an emergency shutdown that leaves the relays as they are
DeactivateAll_skipped(states, pins) == states

RECURSIVE DeactivateAll(_, _)
\* `for pin in self.config['relay_pins']: deactivate_relay(pin)`
DeactivateAll(states, pins) ==
    IF pins = {} THEN states
    ELSE LET pin == CHOOSE x \in pins : TRUE IN
         DeactivateAll(deactivate_relay(states, pin).states, pins \ {pin})

\* an else branch that stops the system on an unknown action type
unknown_action_type_stops(same) == [same EXCEPT !.shutdown = TRUE]

\* the else branch of _execute_action: a warning, nothing else
unknown_action_type(same) == same

\* _execute_action: what the action does to the relay bank and the motor,
\* whether it stops the system, the error logged on the way and the
\* exception that leaves _execute_action.
execute_action(action, states, tmrs, t, position) ==
    LET same == [states |-> states, timers |-> tmrs, position |-> position,
                 shutdown |-> FALSE, log |-> "none", raised |-> "none"] IN
    IF ~IsDict(action)
    THEN [same EXCEPT !.raised = "AttributeError"]
    ELSE LET action_type == ActionGet(action, "type", "None") IN
         CASE action_type = "spray_pesticide" ->
                LET r == activate_relay(states, tmrs, t, PumpRelay,
                                        ActionGet(action, "duration", 5)) IN
                [same EXCEPT !.states = r.states, !.timers = r.timers,
                             !.log = r.log, !.raised = r.raised]
           [] action_type = "activate_trap" ->
                LET r == activate_relay(states, tmrs, t, TrapRelay,
                                        ActionGet(action, "duration", 30)) IN
                [same EXCEPT !.states = r.states, !.timers = r.timers,
                             !.log = r.log, !.raised = r.raised]
           [] action_type = "adjust_camera" ->
                LET r == move_servo(position,
                                    ActionGet(action, "angle", 90)) IN
                [same EXCEPT !.position = r.position,
                             !.log = r.log, !.raised = r.raised]
           [] action_type = "emergency_shutdown" ->
                [same EXCEPT !.states = cleanup(DeactivateAll(states,
                                                              RelayPins)),
                             !.shutdown = TRUE]
           [] OTHER -> unknown_action_type(same)

\* start_system: the flag, one more thread per sensor, one more worker
\* thread
StartSystem ==
    /\ BagCardinality(workers) < MaxWorkers
    /\ MonitorsFit
    /\ workers' = workers (+) BagOf(Worker("loop", 0))
    /\ is_running' = TRUE
    /\ sensor_running' = TRUE
    /\ sensor_threads' = register_threads(sensor_threads, Len(SensorOrder))
    /\ monitors' = spawn_monitors(monitors, Len(SensorOrder))
    /\ halted' = FALSE
    /\ lastCall' = SystemStep
    /\ lastLog' = "none"
    /\ lastRaised' = "none"
    /\ UNCHANGED << relayVars, motorVars, sensor_data, configVars, queueVars,
                    execLog, policyCalls >>

\* start_system when Thread.start() raises RuntimeError after `started`
\* sensor threads have been started (Len(SensorOrder): the worker thread is
\* the one that fails): the except clause logs and re-raises
StartSystemFails(started) ==
    /\ MonitorsFit
    /\ is_running' = TRUE
    /\ sensor_running' = TRUE
    /\ sensor_threads' = register_threads(sensor_threads, started)
    /\ monitors' = spawn_monitors(monitors, started)
    /\ halted' = FALSE
    /\ lastCall' = [op |-> "start_system"]
    /\ lastLog' = "Error starting system"
    /\ lastRaised' = "RuntimeError"
    /\ UNCHANGED << relayVars, motorVars, sensor_data, configVars, queueVars,
                    workers, execLog, policyCalls >>

\* a stop_sensor_monitoring that leaves the flag as it is
stop_sensor_monitoring_flag_kept(running) == running

\* stop_sensor_monitoring: `self.running = False`
stop_sensor_monitoring(running) == FALSE

\* a stop_system that cancels the timers of the relay bank
stop_system_timers_cancelled(tmrs) == EmptyBag

\* the pending timers after stop_system: neither it nor cleanup holds a
\* reference to a Timer object
stop_system_timers(tmrs) == tmrs

\* stop_system: the flag, stop_sensor_monitoring (whose join gives up after
\* a second), relay_controller.cleanup
StopSystem ==
    /\ is_running' = FALSE
    /\ sensor_running' = stop_sensor_monitoring(sensor_running)
    /\ relay_states' = cleanup(relay_states)
    /\ timers' = stop_system_timers(timers)
    /\ lastCall' = [op |-> "stop_system"]
    /\ lastLog' = "none"
    /\ lastRaised' = "none"
    /\ UNCHANGED << now, motorVars, sensor_threads, sensor_data,
                    monitors, configVars, queueVars, workerVars,
                    policyCalls >>

\* an add_action that puts the action at the head of the queue
add_action_front(acts, q, action) ==
    [actions |-> Append(acts, action), queue |-> << Len(acts) + 1 >> \o q]

\* self.action_queue.put(action)
add_action(acts, q, action) ==
    [actions |-> Append(acts, action), queue |-> Append(q, Len(acts) + 1)]

\* a caller's add_action(action)
AddAction(action) ==
    /\ Len(actions) < MaxActions
    /\ LET r == add_action(actions, action_queue, action) IN
         /\ actions' = r.actions
         /\ action_queue' = r.queue
    /\ lastCall' = SystemStep
    /\ lastLog' = "none"
    /\ lastRaised' = "none"
    /\ UNCHANGED << relayVars, motorVars, sensorVars, configVars,
                    is_running, trigger, workerVars, policyCalls >>

\* trigger_pest_response up to its `for action in actions` loop; one such
\* call is in progress at a time
TriggerPestResponse(pest_type, confidence, location) ==
    /\ trigger = NoTrigger
    /\ LET acts == response_actions(confidence, pest_thresholds) IN
         /\ Len(actions) + Len(acts) <= MaxActions
         /\ trigger' = [confidence |-> confidence, pest_type |-> pest_type,
                        location |-> location, pending |-> acts,
                        put |-> << >>]
    /\ lastCall' = SystemStep
    /\ lastLog' = "none"
    /\ lastRaised' = "none"
    /\ UNCHANGED << relayVars, motorVars, sensorVars, configVars,
                    is_running, actions, action_queue, workerVars,
                    policyCalls >>

\* one pass of `for action in actions: self.add_action(action)`
TriggerPut ==
    /\ trigger.pending # << >>
    /\ LET r == add_action(actions, action_queue, Head(trigger.pending)) IN
         /\ actions' = r.actions
         /\ action_queue' = r.queue
    /\ trigger' = [trigger EXCEPT !.pending = Tail(@),
                                  !.put = Append(@, Head(trigger.pending))]
    /\ lastCall' = SystemStep
    /\ lastLog' = "none"
    /\ lastRaised' = "none"
    /\ UNCHANGED << relayVars, motorVars, sensorVars, configVars,
                    is_running, workerVars, policyCalls >>

\* _process_actions: `while self.is_running`; a worker that finds the flag
\* cleared returns and its thread ends
WorkerLoop(w) ==
    /\ BagIn(w, workers)
    /\ w.pc = "loop"
    /\ workers' = IF is_running
                  THEN (workers (-) BagOf(w)) (+) BagOf(Worker("get", 0))
                  ELSE workers (-) BagOf(w)
    /\ lastCall' = SystemStep
    /\ lastLog' = "none"
    /\ lastRaised' = "none"
    /\ UNCHANGED << relayVars, motorVars, sensorVars, configVars,
                    is_running, queueVars, execLog, halted, policyCalls >>

\* a get that also discards the item behind the one it returns
queue_get_skipping(q) ==
    [item |-> Head(q), queue |-> IF Len(q) > 1 THEN Tail(Tail(q)) ELSE Tail(q)]

\* the item action_queue.get(timeout=1) returns
queue_get(q) == [item |-> Head(q), queue |-> Tail(q)]

\* _process_actions: `self.action_queue.get(timeout=1)`; queue.Empty after
\* the wait sends the worker round the loop
WorkerGet(w) ==
    /\ BagIn(w, workers)
    /\ w.pc = "get"
    /\ IF action_queue # << >>
       THEN LET r == queue_get(action_queue) IN
            /\ workers' = (workers (-) BagOf(w))
                             (+) BagOf(Worker("exec", r.item))
            /\ action_queue' = r.queue
       ELSE /\ workers' = (workers (-) BagOf(w)) (+) BagOf(Worker("loop", 0))
            /\ UNCHANGED action_queue
    /\ lastCall' = SystemStep
    /\ lastLog' = "none"
    /\ lastRaised' = "none"
    /\ UNCHANGED << relayVars, motorVars, sensorVars, configVars,
                    is_running, actions, trigger, execLog, halted,
                    policyCalls >>

\* trigger_pest_response returns once every action has been put
TriggerReturn ==
    /\ trigger # NoTrigger
    /\ trigger.pending = << >>
    /\ trigger' = NoTrigger
    /\ lastCall' = SystemStep
    /\ lastLog' = "none"
    /\ lastRaised' = "none"
    /\ UNCHANGED << relayVars, motorVars, sensorVars, configVars,
                    is_running, actions, action_queue, workerVars,
                    policyCalls >>

\* a worker whose loop has no `except Exception` around _execute_action:
\* the exception ends its thread
after_execute_uncaught(raised) ==
    IF raised # "none" THEN EmptyBag ELSE BagOf(Worker("loop", 0))

\* the worker after _execute_action returned or raised: both except clauses
\* of _process_actions lead back to the `while`
after_execute(raised) == BagOf(Worker("loop", 0))

\* _process_actions: `self._execute_action(action)` and its except clauses
WorkerExec(w) ==
    /\ BagIn(w, workers)
    /\ w.pc = "exec"
    /\ LET r == execute_action(actions[w.act], relay_states, timers, now,
                               current_position) IN
         /\ TimerFits(r.timers)
         /\ relay_states' = r.states
         /\ timers' = r.timers
         /\ current_position' = r.position
         /\ is_running' = IF r.shutdown THEN FALSE ELSE is_running
         /\ sensor_running' = IF r.shutdown
                              THEN stop_sensor_monitoring(sensor_running)
                              ELSE sensor_running
         /\ lastLog' = IF r.raised # "none" THEN "Error processing action"
                       ELSE r.log
         /\ lastRaised' = "none"
         /\ workers' = (workers (-) BagOf(w)) (+) after_execute(r.raised)
         /\ halted' = IF r.shutdown THEN TRUE ELSE halted
    /\ execLog' = Append(execLog, w.act)
    /\ lastCall' = SystemStep
    /\ UNCHANGED << now, is_moving, stepper, sensor_threads, sensor_data,
                    monitors, configVars,
                    actions, action_queue, trigger, policyCalls >>

\* the risk policy applied to a confidence, on its own
ApplyPolicy(confidence) ==
    /\ Len(policyCalls) < MaxPolicyCalls
    /\ policyCalls' = Append(policyCalls,
           [confidence |-> confidence,
            tier |-> risk_tier(confidence, pest_thresholds),
            actions |-> response_actions(confidence, pest_thresholds)])
    /\ lastCall' = SystemStep
    /\ lastLog' = "none"
    /\ lastRaised' = "none"
    /\ UNCHANGED << relayVars, motorVars, sensorVars, configVars,
                    systemVars >>

\* get_system_status: the dict it returns
get_system_status ==
    [is_running |-> is_running,
     relay_states |-> [pin \in RelayPins |-> StateOf(relay_states, pin)],
     motor_position |-> current_position,
     sensor_data |-> get_all_sensor_data(sensor_data),
     timestamp |-> now]

\* a caller's get_system_status()
GetSystemStatus ==
    /\ lastCall' = [op |-> "get_system_status", result |-> get_system_status]
    /\ lastLog' = "none"
    /\ lastRaised' = "none"
    /\ UNCHANGED << relayVars, motorVars, sensorVars, configVars, systemVars,
                    policyCalls >>

\* config_file = None
NoFile == [path |-> "None"]

\* the attributes of an object whose __init__ has not returned
NoConfig == [unset |-> TRUE]

\* _load_config with `import os` in place: the file's keys replace the
\* default ones
load_config_os_imported(config_file) ==
    IF config_file # NoFile /\ config_file.exists
    THEN [pest_thresholds |-> config_file.pest_thresholds, raised |-> "none"]
    ELSE [pest_thresholds |-> DefaultThresholds, raised |-> "none"]

\* _load_config: the module does not import os, so `os.path.exists` raises
\* NameError for every config_file that is not falsy, outside the try
load_config(config_file) ==
    IF config_file # NoFile
    THEN [pest_thresholds |-> NoConfig, raised |-> "NameError"]
    ELSE [pest_thresholds |-> DefaultThresholds, raised |-> "none"]

\* PestManagementSystem(config_file): an exception out of _load_config
\* leaves no object behind
Construct(config_file) ==
    /\ ~constructed
    /\ LET r == load_config(config_file) IN
         /\ constructed' = (r.raised = "none")
         /\ pest_thresholds' = r.pest_thresholds
         /\ lastRaised' = r.raised
    /\ lastCall' = [op |-> "construct", config_file |-> config_file]
    /\ lastLog' = "none"
    /\ UNCHANGED << relayVars, motorVars, sensorVars, systemVars,
                    policyCalls >>

----------------------------------------------------------------------------
(* Construction: RelayController.__init__, MotorController.__init__,       *)
(* SensorController.__init__, PestManagementSystem.__init__                *)


InitRelay ==
    /\ relay_states = [pin \in RelayPins |-> FALSE]
    /\ timers = EmptyBag
    /\ now = 0

InitMotor ==
    /\ current_position = 0
    /\ is_moving = FALSE
    /\ stepper = NoStepper

InitSensors ==
    /\ sensor_running = FALSE
    /\ sensor_threads = [s \in SensorNames |-> FALSE]
    /\ sensor_data = << >>
    /\ monitors = EmptyBag

InitSystem ==
    /\ constructed = TRUE
    /\ pest_thresholds = DefaultThresholds
    /\ is_running = FALSE
    /\ actions = << >>
    /\ action_queue = << >>
    /\ trigger = NoTrigger
    /\ workers = EmptyBag
    /\ execLog = << >>
    /\ halted = FALSE

Init ==
    /\ InitRelay
    /\ InitMotor
    /\ InitSensors
    /\ InitSystem
    /\ policyCalls = << >>
    /\ lastCall = NoCall
    /\ lastLog = "none"
    /\ lastRaised = "none"

----------------------------------------------------------------------------
(* The relay bank on its own: direct calls, timers and the clock *)

PinInputs == RelayPins \cup {PumpRelay}
DurationInputs == {NoDuration} \cup (0..MaxDuration)
TimerValues == [pin : PinInputs, due : 0..MaxTime]

NextRelay ==
    \/ \E pin \in PinInputs, duration \in DurationInputs :
           ActivateRelay(pin, duration)
    \/ \E pin \in PinInputs : DeactivateRelay(pin)
    \/ \E timer \in TimerValues : TimerFire(timer)
    \/ Tick

SpecRelay == Init /\ [][NextRelay]_vars

\* threading.Timer threads run to their deadline and the clock advances
FairSpecRelay ==
    /\ SpecRelay
    /\ WF_vars(Tick)
    /\ WF_vars(\E timer \in TimerValues : TimerFire(timer))

----------------------------------------------------------------------------
(* The motor controller on its own *)

AngleInputs == {-1, 0, 90, 180, 181}

NextMotor ==
    \/ \E angle \in AngleInputs : MoveServo(angle)
    \/ \E steps \in 0..MaxSteps, direction \in {-1, 1} :
           MoveStepperBegin(steps, direction)
    \/ StepperStep
    \/ MoveStepperEnd

SpecMotor == Init /\ [][NextMotor]_vars

----------------------------------------------------------------------------
(* The risk policy on its own, for thresholds other than the default ones *)

Percentages == {30, 50, 80}
ThresholdInputs ==
    [high_risk : Percentages, medium_risk : Percentages, low_risk : Percentages]
ConfidenceInputs == {0, 29, 30, 49, 50, 79, 80, 85, 100}

InitPolicy ==
    /\ InitRelay
    /\ InitMotor
    /\ InitSensors
    /\ is_running = FALSE
    /\ actions = << >>
    /\ action_queue = << >>
    /\ trigger = NoTrigger
    /\ workers = EmptyBag
    /\ execLog = << >>
    /\ halted = FALSE
    /\ constructed = TRUE
    /\ pest_thresholds \in ThresholdInputs
    /\ policyCalls = << >>
    /\ lastCall = NoCall
    /\ lastLog = "none"
    /\ lastRaised = "none"

NextPolicy == \E confidence \in ConfidenceInputs : ApplyPolicy(confidence)

SpecPolicy == InitPolicy /\ [][NextPolicy]_vars

----------------------------------------------------------------------------
(* The pest management system: producers, queue and dispatcher workers *)

ActionInputs ==
    { [type |-> "adjust_camera", angle |-> 45],
      [type |-> "adjust_camera", angle |-> 200],
      [type |-> "emergency_shutdown"],
      [type |-> "water_plants"],
      [not_a_dict |-> TRUE] }
TriggerInputs ==
    { [pest_type |-> "aphid",  confidence |-> 85, location |-> <<10, 10>>],
      [pest_type |-> "beetle", confidence |-> 85, location |-> <<100, 200>>],
      [pest_type |-> "aphid",  confidence |-> 80, location |-> <<10, 10>>],
      [pest_type |-> "aphid",  confidence |-> 50, location |-> <<10, 10>>],
      [pest_type |-> "beetle", confidence |-> 30, location |-> <<100, 200>>] }

WorkerValues == [pc : {"loop", "get", "exec"}, act : 0..MaxActions]

Next ==
    \/ StartSystem
    \/ StopSystem
    \/ \E action \in ActionInputs : AddAction(action)
    \/ \E call \in TriggerInputs :
           TriggerPestResponse(call.pest_type, call.confidence, call.location)
    \/ TriggerPut
    \/ TriggerReturn
    \/ \E w \in WorkerValues : WorkerLoop(w)
    \/ \E w \in WorkerValues : WorkerGet(w)
    \/ \E w \in WorkerValues : WorkerExec(w)

Spec == Init /\ [][Next]_vars

\* the worker threads are scheduled: a worker that can take a step of its
\* loop takes one in the end
FairSpec ==
    /\ Spec
    /\ WF_vars(\E w \in WorkerValues : WorkerLoop(w))
    /\ WF_vars(\E w \in WorkerValues : WorkerGet(w))
    /\ WF_vars(\E w \in WorkerValues : WorkerExec(w))

----------------------------------------------------------------------------
(* The sensor hub: start and stop, the polling threads of two of the       *)
(* sensors, and the clock                                                   *)

PolledSensors == {"temperature", "humidity"}
ReadingValues(sensor) ==
    {NoReading} \cup { ok_reading(sensor, t) : t \in 0..MaxTime }
                \cup { error_reading(sensor, t) : t \in 0..MaxTime }
MonitorValues ==
    UNION { { Monitor(sensor, pc, reading) :
                pc \in {"loop", "store"}, reading \in ReadingValues(sensor) } :
            sensor \in PolledSensors }

\* the reads of one of the two sensors can fail
ReadFailures(sensor) == IF sensor = "temperature" THEN BOOLEAN ELSE {FALSE}

NextSensors ==
    \/ StartSystem
    \/ StopSystem
    \/ \E m \in MonitorValues :
          \E fails \in ReadFailures(m.sensor) : MonitorPoll(m, fails)
    \/ \E m \in MonitorValues : MonitorStore(m)
    \/ Tick

SpecSensors == Init /\ [][NextSensors]_vars

----------------------------------------------------------------------------
(* The life of the system: start, failed start, stop, emergency shutdown,  *)
(* direct calls on its relay bank, one polled sensor, status queries       *)

LifecycleActions ==
    { [type |-> "emergency_shutdown"], [type |-> "adjust_camera", angle |-> 45] }
LifecyclePins == {18, 19}
LifecycleMonitors ==
    { m \in MonitorValues : m.sensor = "temperature" /\
                            (m.reading # NoReading => m.reading.timestamp = 0) }

NextLifecycle ==
    \/ StartSystem
    \/ \E started \in {0, Len(SensorOrder)} : StartSystemFails(started)
    \/ StopSystem
    \/ \E action \in LifecycleActions : AddAction(action)
    \/ \E w \in WorkerValues : WorkerLoop(w)
    \/ \E w \in WorkerValues : WorkerGet(w)
    \/ \E w \in WorkerValues : WorkerExec(w)
    \/ \E pin \in LifecyclePins : ActivateRelay(pin, NoDuration)
    \/ \E m \in LifecycleMonitors, fails \in BOOLEAN : MonitorPoll(m, fails)
    \/ \E m \in LifecycleMonitors : MonitorStore(m)
    \/ GetSystemStatus

SpecLifecycle == Init /\ [][NextLifecycle]_vars

----------------------------------------------------------------------------
(* Stop and restart while relay timers are pending: the running system's   *)
(* owner switches a channel on for a while, stops and restarts the system  *)

StopTimerPins == {18}
StopTimerDurations == {NoDuration} \cup (1..MaxDuration)

NextStopTimers ==
    \/ StartSystem
    \/ StopSystem
    \/ /\ is_running
       /\ \E pin \in StopTimerPins, duration \in StopTimerDurations :
              ActivateRelay(pin, duration)
    \/ \E pin \in StopTimerPins : DeactivateRelay(pin)
    \/ \E timer \in TimerValues : TimerFire(timer)
    \/ Tick

SpecStopTimers == Init /\ [][NextStopTimers]_vars

\* threading.Timer threads run to their deadline and the clock advances
FairSpecStopTimers ==
    /\ SpecStopTimers
    /\ WF_vars(Tick)
    /\ WF_vars(\E timer \in TimerValues : TimerFire(timer))

----------------------------------------------------------------------------
(* Stopping the system: the worker and the polling threads of all four     *)
(* sensors run to their loop tests; the system is started again only when  *)
(* the threads of the earlier run have ended                               *)

ShutdownActions == { [type |-> "adjust_camera", angle |-> 45] }
ShutdownMonitors ==
    { Monitor(sensor, "loop", NoReading) : sensor \in SensorNames }
       \cup { Monitor(sensor, "store", ok_reading(sensor, 0)) :
                 sensor \in SensorNames }

NextShutdown ==
    \/ /\ workers = EmptyBag
       /\ monitors = EmptyBag
       /\ StartSystem
    \/ StopSystem
    \/ \E action \in ShutdownActions : AddAction(action)
    \/ \E w \in WorkerValues : WorkerLoop(w)
    \/ \E w \in WorkerValues : WorkerGet(w)
    \/ \E w \in WorkerValues : WorkerExec(w)
    \/ \E m \in ShutdownMonitors : MonitorPoll(m, FALSE)
    \/ \E m \in ShutdownMonitors : MonitorStore(m)

SpecShutdown == Init /\ [][NextShutdown]_vars

\* every thread that can take a step takes one in the end
FairSpecShutdown ==
    /\ SpecShutdown
    /\ WF_vars(\E w \in WorkerValues : WorkerLoop(w))
    /\ WF_vars(\E w \in WorkerValues : WorkerGet(w))
    /\ WF_vars(\E w \in WorkerValues : WorkerExec(w))
    /\ WF_vars(\E m \in ShutdownMonitors : MonitorPoll(m, FALSE))
    /\ WF_vars(\E m \in ShutdownMonitors : MonitorStore(m))

----------------------------------------------------------------------------
(* Construction from a configuration file, then the constructed system     *)

ConfigFileInputs ==
    { NoFile,
      [path |-> "missing.json", exists |-> FALSE,
       pest_thresholds |-> DefaultThresholds],
      [path |-> "good.json", exists |-> TRUE,
       pest_thresholds |-> DefaultThresholds],
      [path |-> "turned.json", exists |-> TRUE,
       pest_thresholds |-> [high_risk |-> 30, medium_risk |-> 50,
                            low_risk |-> 80]],
      [path |-> "short.json", exists |-> TRUE,
       pest_thresholds |-> [high_risk |-> 80]] }

InitConfig ==
    /\ InitRelay
    /\ InitMotor
    /\ InitSensors
    /\ constructed = FALSE
    /\ pest_thresholds = NoConfig
    /\ is_running = FALSE
    /\ actions = << >>
    /\ action_queue = << >>
    /\ trigger = NoTrigger
    /\ workers = EmptyBag
    /\ execLog = << >>
    /\ halted = FALSE
    /\ policyCalls = << >>
    /\ lastCall = NoCall
    /\ lastLog = "none"
    /\ lastRaised = "none"

NextConfig ==
    \/ \E config_file \in ConfigFileInputs : Construct(config_file)
    \/ constructed /\ StartSystem
    \/ constructed /\ StopSystem
    \/ constructed /\ \E call \in TriggerInputs :
         TriggerPestResponse(call.pest_type, call.confidence, call.location)
    \/ constructed /\ TriggerPut
    \/ constructed /\ TriggerReturn

SpecConfig == InitConfig /\ [][NextConfig]_vars

----------------------------------------------------------------------------
(* Claims about RelayController, checked under SpecRelay / FairSpecRelay   *)

\* C2: for every configured channel c, right after activate_relay(c)
\* returns get_relay_state(c) is true, right after deactivate_relay(c)
\* returns it is false, and no other channel's state changes in either call.
C2_ActivateDeactivateSetState ==
    [][ \A c \in RelayPins :
          /\ (lastCall'.op = "activate_relay" /\ lastCall'.pin = c) =>
                /\ StateOf(relay_states', c) = TRUE
                /\ \A q \in RelayPins \ {c} : relay_states'[q] = relay_states[q]
                /\ DOMAIN relay_states' = DOMAIN relay_states
          /\ (lastCall'.op = "deactivate_relay" /\ lastCall'.pin = c) =>
                /\ StateOf(relay_states', c) = FALSE
                /\ \A q \in RelayPins \ {c} : relay_states'[q] = relay_states[q]
                /\ DOMAIN relay_states' = DOMAIN relay_states
      ]_vars

\* an inactive channel was just activated while another channel is active
C2_Witness ==
    /\ lastCall.op = "activate_relay"
    /\ lastCall.pin \in RelayPins
    /\ ~lastCall.was
    /\ relay_states[lastCall.pin]
    /\ \E q \in RelayPins \ {lastCall.pin} : relay_states[q]

\* C3: deactivate_relay on a configured channel that is already inactive
\* logs and raises no error and leaves the whole relay-state map as it was.
C3_DeactivateIdempotent ==
    [][ ( /\ lastCall'.op = "deactivate_relay"
          /\ lastCall'.pin \in RelayPins
          /\ ~get_relay_state(lastCall'.pin) ) =>
            /\ relay_states' = relay_states
            /\ lastLog' = "none"
            /\ lastRaised' = "none"
      ]_vars

\* deactivate_relay has just run on a configured channel that was inactive
C3_Witness ==
    /\ lastCall.op = "deactivate_relay"
    /\ lastCall.pin \in RelayPins
    /\ ~lastCall.was
    /\ \E q \in RelayPins : relay_states[q]

PendingOn(c) == \E timer \in BagToSet(timers) : timer.pin = c

\* C4: activate_relay(c, d) on a configured channel with d > 0 schedules
\* exactly one auto-off timer, due d after the call; a timer that fires is
\* gone (it fires once) and leaves its channel inactive; and a channel with
\* a pending timer eventually becomes inactive, whether or not anyone calls
\* deactivate_relay.
C4_TimedActivationAutoOff ==
    /\ [][ ( /\ lastCall'.op = "activate_relay"
             /\ lastCall'.pin \in RelayPins
             /\ lastCall'.duration > 0 ) =>
               timers' = timers (+) SetToBag({[pin |-> lastCall'.pin,
                                               due |-> now + lastCall'.duration]})
         ]_vars
    /\ [][ lastCall'.op = "timer" =>
               /\ BagCardinality(timers') = BagCardinality(timers) - 1
               /\ ~StateOf(relay_states', lastCall'.pin)
         ]_vars
    /\ \A c \in RelayPins : PendingOn(c) ~> ~relay_states[c]

\* a timer has fired on a channel that was still active, and turned it off
C4_Witness ==
    /\ lastCall.op = "timer"
    /\ lastCall.was
    /\ ~relay_states[lastCall.pin]

\* C5 as claimed: activate_relay and deactivate_relay on a channel that is
\* not configured fail with an invalid-channel error that reaches the
\* caller, and change neither the relay-state map nor the timers.
C5_InvalidChannelRaises ==
    [][ ( /\ lastCall'.op \in {"activate_relay", "deactivate_relay"}
          /\ lastCall'.pin \notin RelayPins ) =>
            /\ lastRaised' # "none"
            /\ relay_states' = relay_states
            /\ timers' = timers
      ]_vars

\* C5 amended: on a channel that is not configured both calls raise the
\* invalid-channel error inside their own try block, log it and return
\* normally; the relay-state map (values and key set) and the timers are
\* unchanged.
C5_InvalidChannelLoggedNoEffect ==
    [][ ( /\ lastCall'.op \in {"activate_relay", "deactivate_relay"}
          /\ lastCall'.pin \notin RelayPins ) =>
            /\ lastLog' = (IF lastCall'.op = "activate_relay"
                           THEN "Error activating relay"
                           ELSE "Error deactivating relay")
            /\ lastRaised' = "none"
            /\ relay_states' = relay_states
            /\ DOMAIN relay_states' = RelayPins
            /\ timers' = timers
      ]_vars

\* activate_relay with a duration has just run on an unconfigured channel
\* while another channel is active and one timer is pending
C5_Witness ==
    /\ lastCall.op = "activate_relay"
    /\ lastCall.pin \notin RelayPins
    /\ lastCall.duration > 0
    /\ lastLog = "Error activating relay"
    /\ BagCardinality(timers) = 1
    /\ \E q \in RelayPins : relay_states[q]

----------------------------------------------------------------------------
(* Claims about PestManagementSystem's queue and dispatcher, under Spec    *)

\* C1: actions are executed in the order in which their add_action calls
\* completed (actions are numbered in that order): the execution log never
\* holds a later action before an earlier one.
C1_ExecutedInEnqueueOrder ==
    \A i, j \in DOMAIN execLog : i < j => execLog[i] < execLog[j]

----------------------------------------------------------------------------
(* Claims about MotorController, under SpecMotor *)

\* C6 as claimed: move_servo(angle) with 0 <= angle <= 180 succeeds and
\* get_position() is then angle; with any other angle it fails with an
\* out-of-range error that reaches the caller, and the position is as before.
C6_ServoOutOfRangeRaises ==
    [][ lastCall'.op = "move_servo" =>
          IF 0 <= lastCall'.angle /\ lastCall'.angle <= 180
          THEN /\ get_position' = lastCall'.angle
               /\ lastLog' = "none"
               /\ lastRaised' = "none"
          ELSE /\ get_position' = get_position
               /\ lastRaised' # "none"
      ]_vars

\* C6 amended: move_servo(angle) with 0 <= angle <= 180 succeeds and
\* get_position() is then angle; with any other angle it raises the
\* out-of-range error inside its own try block, logs it and returns
\* normally, and the position is as before.
C6_ServoRangeChecked ==
    [][ lastCall'.op = "move_servo" =>
          IF 0 <= lastCall'.angle /\ lastCall'.angle <= 180
          THEN /\ get_position' = lastCall'.angle
               /\ lastLog' = "none"
               /\ lastRaised' = "none"
          ELSE /\ get_position' = get_position
               /\ lastLog' = "Error moving servo motor"
               /\ lastRaised' = "none"
      ]_vars

\* move_servo(181) has just been refused with the servo at 90 degrees
C6_Witness ==
    /\ lastCall.op = "move_servo"
    /\ lastCall.angle = 181
    /\ lastCall.was = 90
    /\ current_position = 90
    /\ lastLog = "Error moving servo motor"

----------------------------------------------------------------------------
(* Claims about the risk policy *)

HighBundle ==
    << [type |-> "spray_pesticide", duration |-> 10],
       [type |-> "activate_trap", duration |-> 60] >>
MediumBundle ==
    << [type |-> "spray_pesticide", duration |-> 5],
       [type |-> "activate_trap", duration |-> 30] >>
LowBundle == << [type |-> "activate_trap", duration |-> 15] >>

\* the canonical bundle for a confidence under the default thresholds
CanonicalBundle(confidence) ==
    IF confidence >= 80 THEN HighBundle
    ELSE IF confidence >= 50 THEN MediumBundle
    ELSE LowBundle

Last(seq) == seq[Len(seq)]

TierRank(tier) ==
    CASE tier = "low" -> 1 [] tier = "medium" -> 2 [] tier = "high" -> 3

\* C8: for thresholds with high_risk >= medium_risk >= low_risk, of two
\* confidences the larger is never given the lower tier.
C8_RiskTierMonotonic ==
    ( /\ pest_thresholds.high_risk >= pest_thresholds.medium_risk
      /\ pest_thresholds.medium_risk >= pest_thresholds.low_risk ) =>
        \A i, j \in DOMAIN policyCalls :
            policyCalls[i].confidence <= policyCalls[j].confidence =>
                TierRank(policyCalls[i].tier) <= TierRank(policyCalls[j].tier)

\* under ordered thresholds other than the default ones, two confidences
\* on either side of a threshold have been given different tiers
C8_Witness ==
    /\ pest_thresholds.high_risk >= pest_thresholds.medium_risk
    /\ pest_thresholds.medium_risk >= pest_thresholds.low_risk
    /\ pest_thresholds # DefaultThresholds
    /\ \E i, j \in DOMAIN policyCalls :
          /\ policyCalls[i].confidence < policyCalls[j].confidence
          /\ TierRank(policyCalls[i].tier) < TierRank(policyCalls[j].tier)

\* C9: when the dispatcher has executed the spray_pesticide(10) action of
\* a high-risk response the pump relay is active, and when it has executed
\* the activate_trap(60) action the trap relay is active.
C9_HighRiskResponseDrivesRelays ==
    [][ \A id \in DOMAIN actions :
          execLog' = Append(execLog, id) =>
            /\ actions[id] = HighBundle[1] => StateOf(relay_states', PumpRelay)
            /\ actions[id] = HighBundle[2] => StateOf(relay_states', TrapRelay)
      ]_vars

----------------------------------------------------------------------------
(* Claims about shutdown, status and start-up, checked under SpecLifecycle *)
(* (C12 under Spec)                                                        *)

IsShutdown(id) ==
    /\ IsDict(actions[id])
    /\ ActionGet(actions[id], "type", "None") = "emergency_shutdown"

\* C11: the step in which a worker executes an emergency_shutdown action
\* leaves every configured relay inactive, the running flag false and the
\* sensor pollers told to stop, and puts that worker back at the test of
\* its loop; a worker that makes that test while the flag is false leaves
\* the loop, so it executes nothing more.
C11_EmergencyShutdownStopsEverything ==
    /\ [][ \A id \in DOMAIN actions :
             (execLog' = Append(execLog, id) /\ IsShutdown(id)) =>
                /\ \A pin \in RelayPins : ~StateOf(relay_states', pin)
                /\ ~is_running'
                /\ ~sensor_running'
                /\ workers' = (workers (-) BagOf(Worker("exec", id)))
                                 (+) BagOf(Worker("loop", 0))
         ]_vars
    /\ [][ (~is_running /\ CopiesIn(Worker("loop", 0), workers')
                             < CopiesIn(Worker("loop", 0), workers)) =>
             workers' = workers (-) BagOf(Worker("loop", 0))
         ]_vars

\* the only worker executed an emergency shutdown and has left its loop;
\* nothing has restarted the system since
C11_Witness ==
    /\ halted
    /\ workers = EmptyBag
    /\ execLog # << >>
    /\ IsShutdown(execLog[Len(execLog)])
    /\ ~is_running
    /\ ~sensor_running
    /\ \A pin \in RelayPins : ~StateOf(relay_states, pin)

\* C12: once emergency_shutdown has executed, and until start_system is
\* called, no action is executed and no relay becomes active.
C12_ShutdownTerminalUntilRestart ==
    [][ halted =>
          /\ execLog' = execLog
          /\ \A pin \in RelayPins :
                StateOf(relay_states', pin) => StateOf(relay_states, pin)
      ]_vars

\* C13: get_system_status can be called in every state; it returns the
\* running flag, the state of every configured relay, the motor position
\* and the whole sensor map, readings in error included, and changes none
\* of them.
C13_StatusAlwaysSucceeds ==
    /\ [](ENABLED GetSystemStatus)
    /\ [][ lastCall'.op = "get_system_status" =>
             /\ lastRaised' = "none"
             /\ lastCall'.result.is_running = is_running
             /\ DOMAIN lastCall'.result.relay_states = RelayPins
             /\ \A pin \in RelayPins :
                   lastCall'.result.relay_states[pin]
                      = StateOf(relay_states, pin)
             /\ lastCall'.result.motor_position = current_position
             /\ lastCall'.result.sensor_data = sensor_data
             /\ UNCHANGED << relayVars, motorVars, sensorVars, configVars,
                             systemVars >>
         ]_vars

\* a status taken after an emergency shutdown, with a relay active again
\* and a sensor reading in error
C13_Witness ==
    /\ lastCall.op = "get_system_status"
    /\ halted
    /\ \E pin \in RelayPins : lastCall.result.relay_states[pin]
    /\ \E s \in DOMAIN lastCall.result.sensor_data :
          lastCall.result.sensor_data[s].status = "error"

\* C14: after stop_system (which runs RelayController.cleanup) returns,
\* every configured relay is inactive.
C14_CleanupForcesRelaysOff ==
    [][ lastCall'.op = "stop_system" =>
          \A pin \in RelayPins : ~StateOf(relay_states', pin)
      ]_vars

\* C17: a start_system that raises leaves is_running false.
C17_FailedStartNotRunning ==
    [][ (lastCall'.op = "start_system" /\ lastRaised' # "none") =>
          ~is_running'
      ]_vars

----------------------------------------------------------------------------
(* Claims about the sensor hub, checked under SpecSensors *)

\* C15: a stored reading is never replaced by one with an earlier
\* timestamp.
C15_TimestampsNonDecreasing ==
    [][ \A s \in DOMAIN sensor_data :
           sensor_data'[s].timestamp >= sensor_data[s].timestamp
      ]_vars

\* C16: a failed read does not end the polling thread: the thread logs the
\* error and holds a reading with status error, no value and the failure
\* detail; the step that stores it writes that reading under the thread's
\* own sensor, leaves every other entry alone and puts the thread back at
\* the test of its loop.
C16_SensorFailureContained ==
    /\ [][ lastLog' = "Error reading sensor" =>
             \E m \in BagToSet(monitors) :
                /\ m.pc = "loop"
                /\ m.sensor = lastCall'.sensor
                /\ \E r \in ReadingValues(m.sensor) :
                      /\ r.status = "error"
                      /\ r.value = "None"
                      /\ r.error = "str(e)"
                      /\ r.timestamp = now
                      /\ monitors' = (monitors (-) BagOf(m))
                                       (+) BagOf(Monitor(m.sensor, "store", r))
                /\ sensor_data' = sensor_data
         ]_vars
    /\ [][ \A m \in BagToSet(monitors) :
             (/\ m.pc = "store"
              /\ m.reading.status = "error"
              /\ CopiesIn(m, monitors') < CopiesIn(m, monitors)) =>
                /\ DOMAIN sensor_data' = DOMAIN sensor_data \cup {m.sensor}
                /\ sensor_data'[m.sensor] = m.reading
                /\ \A x \in DOMAIN sensor_data \ {m.sensor} :
                      sensor_data'[x] = sensor_data[x]
                /\ monitors' = (monitors (-) BagOf(m))
                       (+) BagOf(Monitor(m.sensor, "loop", NoReading))
         ]_vars

\* the hub is running; the one thread of `temperature` stored a reading in
\* error, has read again and is about to store status ok; the reading of
\* `humidity` is untouched
C16_Witness ==
    /\ sensor_running
    /\ DOMAIN sensor_data = PolledSensors
    /\ sensor_data["temperature"].status = "error"
    /\ sensor_data["humidity"].status = "ok"
    /\ LiveMonitors(monitors, "temperature") = 1
    /\ \E m \in BagToSet(monitors) :
          /\ m.sensor = "temperature"
          /\ m.pc = "store"
          /\ m.reading.status = "ok"
          /\ m.reading.timestamp > sensor_data["temperature"].timestamp

----------------------------------------------------------------------------
(* Claim about construction, checked under SpecConfig *)

RequiredKeys == {"high_risk", "medium_risk", "low_risk"}

WellFormed(thresholds) ==
    /\ RequiredKeys \subseteq DOMAIN thresholds
    /\ thresholds.high_risk >= thresholds.medium_risk
    /\ thresholds.medium_risk >= thresholds.low_risk

Malformed(config_file) ==
    /\ config_file # NoFile
    /\ config_file.exists
    /\ ~WellFormed(config_file.pest_thresholds)

----------------------------------------------------------------------------
(* Claims about the queue and its consumers, checked under Spec *)

\* C19: add_action can be called in every state (here: while the model's
\* bound on action objects leaves room); the step that lengthens the queue
\* appends the new action at its tail and returns, executes nothing and
\* leaves the relays, the motor, the sensors and the running flag alone.
C19_AddActionNeverBlocks ==
    /\ [](Len(actions) < MaxActions =>
             \A action \in ActionInputs : ENABLED AddAction(action))
    /\ [][ Len(action_queue') > Len(action_queue) =>
             /\ Len(actions') = Len(actions) + 1
             /\ SubSeq(actions', 1, Len(actions)) = actions
             /\ action_queue' = Append(action_queue, Len(actions'))
             /\ lastRaised' = "none"
             /\ execLog' = execLog
             /\ workers' = workers
             /\ is_running' = is_running
             /\ UNCHANGED << relayVars, motorVars, sensorVars >>
         ]_vars

\* the system has been stopped by an emergency shutdown and every worker
\* has left; add_action was called in that state, and the action sits in
\* the queue, not executed
C19_Witness ==
    /\ halted
    /\ ~is_running
    /\ workers = EmptyBag
    /\ Len(action_queue) = 1
    /\ Len(actions) = 2
    /\ execLog = << 1 >>
    /\ action_queue[1] = 2

\* C20: at most one worker thread consumes the action queue.
C20_SingleConsumer == BagCardinality(workers) <= 1

----------------------------------------------------------------------------
(* Further claims about RelayController, checked under SpecRelay *)

\* C22: an activation with a duration adds its own timer and leaves every
\* pending timer as it is, whether or not the channel is active already; a
\* timer leaves the pending ones only by firing, one at a time, at its own
\* due time, and its firing sets its channel inactive even while a later
\* timer of that channel is pending.
C22_TimersNeverRescheduled ==
    /\ [][ (/\ lastCall'.op = "activate_relay"
            /\ lastCall'.pin \in RelayPins
            /\ Truthy(lastCall'.duration)) =>
               timers' = timers (+) SetToBag({[pin |-> lastCall'.pin,
                                               due |-> now + lastCall'.duration]})
         ]_vars
    /\ [][ (\E timer \in BagToSet(timers) :
               CopiesIn(timer, timers') < CopiesIn(timer, timers)) =>
             /\ lastCall'.op = "timer"
             /\ \E timer \in BagToSet(timers) :
                   /\ timer.pin = lastCall'.pin
                   /\ timer.due = now
                   /\ timers' = timers (-) SetToBag({timer})
             /\ ~StateOf(relay_states', lastCall'.pin)
         ]_vars

\* a channel was activated twice with different durations; the earlier
\* timer has just fired and switched the active channel off while the later
\* timer is still pending
C22_Witness ==
    /\ lastCall.op = "timer"
    /\ lastCall.was
    /\ ~StateOf(relay_states, lastCall.pin)
    /\ \E timer \in BagToSet(timers) :
          /\ timer.pin = lastCall.pin
          /\ timer.due > now

\* C30: an activation of a configured channel with no duration or with
\* duration 0 starts no timer and leaves the channel active; an active
\* channel becomes inactive only in a deactivate_relay call or in the firing
\* of a timer of that channel.
C30_NoDurationNoTimer ==
    /\ [][ (/\ lastCall'.op = "activate_relay"
            /\ lastCall'.pin \in RelayPins
            /\ lastCall'.duration \in {NoDuration, 0}) =>
               /\ timers' = timers
               /\ StateOf(relay_states', lastCall'.pin)
         ]_vars
    /\ [][ \A pin \in RelayPins :
             (StateOf(relay_states, pin) /\ ~StateOf(relay_states', pin)) =>
                /\ lastCall'.op \in {"deactivate_relay", "timer"}
                /\ lastCall'.pin = pin
         ]_vars

\* activate_relay(pin, 0) has returned: the channel is active, no timer is
\* pending, and the clock has reached its end with the channel still active
C30_Witness ==
    /\ now = MaxTime
    /\ timers = EmptyBag
    /\ \E pin \in RelayPins : StateOf(relay_states, pin)
    /\ lastCall.op = "tick"

----------------------------------------------------------------------------
(* Further claims about the sensor hub (SpecSensors) and the motor         *)
(* (SpecMotor)                                                             *)

\* C21: every sensor has at most one live polling thread.
C21_OneWriterPerSensor ==
    \A s \in SensorNames : LiveMonitors(monitors, s) <= 1

\* C24: the position the motor controller reports as the servo angle stays
\* within 0..180.
C24_ServoAngleInRange ==
    0 <= get_position /\ get_position <= 180

----------------------------------------------------------------------------
(* Stop and restart with pending timers, checked under FairSpecStopTimers *)

\* C23: stop_system leaves the pending relay timers as they are; a timer
\* that is pending when stop_system returns fires later, whether the system
\* is stopped or running again by then, and its firing leaves its channel
\* inactive.
C23_StopKeepsTimers ==
    /\ [][lastCall'.op = "stop_system" => timers' = timers]_vars
    /\ [](\A timer \in TimerValues :
             (BagIn(timer, timers) /\ timer.due <= now) =>
                 ENABLED TimerFire(timer))
    /\ [][lastCall'.op = "timer" => ~StateOf(relay_states', lastCall'.pin)]_vars
    /\ \A timer \in TimerValues :
          (lastCall.op = "stop_system" /\ BagIn(timer, timers)) ~>
             (/\ lastCall.op = "timer"
              /\ lastCall.pin = timer.pin
              /\ now >= timer.due
              /\ ~StateOf(relay_states, timer.pin))

\* a timer started while the system ran has fired on the stopped system and
\* switched the active channel off
C23_Witness ==
    /\ lastCall.op = "timer"
    /\ lastCall.was
    /\ ~is_running
    /\ ~StateOf(relay_states, lastCall.pin)

\* a timer has fired and switched the active channel off on a system that
\* was stopped and started again
C23_WitnessRestarted ==
    /\ lastCall.op = "timer"
    /\ lastCall.was
    /\ is_running
    /\ BagCardinality(workers) = MaxWorkers
    /\ ~StateOf(relay_states, lastCall.pin)

----------------------------------------------------------------------------
(* Motor moves issued by the dispatcher, checked under Spec *)

\* the workers that have taken an adjust_camera action off the queue and
\* have not returned from _execute_action yet
DispatcherMoves ==
    { w \in BagToSet(workers) :
         /\ w.pc = "exec"
         /\ IsDict(actions[w.act])
         /\ ActionGet(actions[w.act], "type", "None") = "adjust_camera" }

RECURSIVE MovesInProgress(_)
\* the motor moves in progress: those of the workers in ws, one per thread
MovesInProgress(ws) ==
    IF ws = {} THEN IF stepper.active THEN 1 ELSE 0
    ELSE LET w == CHOOSE x \in ws : TRUE IN
         CopiesIn(w, workers) + MovesInProgress(ws \ {w})

\* C25: is_moving is true only while a move_stepper call is in progress,
\* and at most one motor move is in progress at a time when the moves come
\* from the dispatcher.
C25_OneMoveAtATime ==
    /\ is_moving => stepper.active
    /\ MovesInProgress(DispatcherMoves) <= 1

\* is_moving is true exactly while a move_stepper call is in progress
C25_MovingFlagFollowsStepper == is_moving <=> stepper.active

----------------------------------------------------------------------------
(* Timed relay actions in the dispatcher, checked under Spec *)

\* a spray_pesticide or activate_trap action whose duration starts a timer
TimedRelayAction(action) ==
    /\ IsDict(action)
    /\ \/ /\ ActionGet(action, "type", "None") = "spray_pesticide"
          /\ Truthy(ActionGet(action, "duration", 5))
       \/ /\ ActionGet(action, "type", "None") = "activate_trap"
          /\ Truthy(ActionGet(action, "duration", 30))

\* C26: when a worker has executed a spray_pesticide(d) or activate_trap(d)
\* action it is back in its loop, free to take the next action, and the
\* auto-off timer of the action is pending.
C26_TimedActionLeavesTimerPending ==
    [][ \A id \in DOMAIN actions :
          (execLog' = Append(execLog, id) /\ TimedRelayAction(actions[id])) =>
             /\ workers' = (workers (-) BagOf(Worker("exec", id)))
                              (+) BagOf(Worker("loop", 0))
             /\ BagCardinality(timers') = BagCardinality(timers) + 1
      ]_vars

\* every worker that has executed a timed relay action is back in its loop
\* at once
C26_WorkerNotHeld ==
    [][ \A id \in DOMAIN actions :
          (execLog' = Append(execLog, id) /\ TimedRelayAction(actions[id])) =>
             workers' = (workers (-) BagOf(Worker("exec", id)))
                           (+) BagOf(Worker("loop", 0))
      ]_vars

----------------------------------------------------------------------------
(* Unknown action kinds, checked under Spec *)

KnownKinds ==
    {"spray_pesticide", "activate_trap", "adjust_camera", "emergency_shutdown"}

UnknownKind(action) ==
    IsDict(action) /\ ActionGet(action, "type", "None") \notin KnownKinds

\* C27: an action of an unknown kind can be enqueued like any other, and
\* the step that executes it changes no relay, timer, motor or sensor state
\* and neither running flag, logs no error, and leaves the worker in its
\* loop with the rest of the queue as it was.
C27_UnknownActionDropped ==
    /\ [](Len(actions) < MaxActions =>
             ENABLED AddAction([type |-> "water_plants"]))
    /\ [][ \A id \in DOMAIN actions :
             (execLog' = Append(execLog, id) /\ UnknownKind(actions[id])) =>
                /\ UNCHANGED << relayVars, motorVars, sensorVars, configVars,
                                is_running, halted, queueVars >>
                /\ lastLog' = "none"
                /\ lastRaised' = "none"
                /\ workers' = (workers (-) BagOf(Worker("exec", id)))
                                 (+) BagOf(Worker("loop", 0))
         ]_vars

\* the only worker has executed an action of an unknown kind and then the
\* adjust_camera(45) action queued behind it
C27_Witness ==
    /\ BagCardinality(workers) = 1
    /\ current_position = 45
    /\ \E i, j \in DOMAIN execLog :
          /\ j = i + 1
          /\ UnknownKind(actions[execLog[i]])
          /\ actions[execLog[j]] = [type |-> "adjust_camera", angle |-> 45]

----------------------------------------------------------------------------
(* Termination after stop_system, checked under FairSpecShutdown *)

Terminated == workers = EmptyBag /\ monitors = EmptyBag

\* C28: once the system has been stopped, every worker and every polling
\* thread ends; a thread that reaches its loop test with the flag cleared
\* ends there; and while no thread is left no action is executed and no
\* sensor reading is stored.
C28_StopTerminatesThreads ==
    /\ (lastCall.op = "stop_system" \/ ~is_running) ~> Terminated
    /\ [][ \A w \in BagToSet(workers) :
             (/\ ~is_running
              /\ w.pc = "loop"
              /\ CopiesIn(w, workers') < CopiesIn(w, workers)) =>
                 workers' = workers (-) BagOf(w)
         ]_vars
    /\ [][ \A m \in BagToSet(monitors) :
             (/\ ~sensor_running
              /\ m.pc = "loop"
              /\ CopiesIn(m, monitors') < CopiesIn(m, monitors)) =>
                 monitors' = monitors (-) BagOf(m)
         ]_vars
    /\ [][ workers = EmptyBag =>
             execLog' = execLog /\ action_queue' \in {action_queue} \cup
                 { Append(action_queue, id) : id \in 1..MaxActions } ]_vars
    /\ [][ monitors = EmptyBag => sensor_data' = sensor_data ]_vars

\* the system ran, stored a reading of every sensor, executed an action and
\* was stopped; all its threads have ended and an action put on the queue
\* is still there
C28_Witness ==
    /\ Terminated
    /\ ~is_running
    /\ DOMAIN sensor_data = SensorNames
    /\ execLog # << >>
    /\ action_queue # << >>

----------------------------------------------------------------------------
(* The queue as a whole, checked under FairSpec *)

RECURSIVE CountIn(_, _)
\* how often x occurs in the sequence seq
CountIn(x, seq) ==
    IF seq = << >> THEN 0
    ELSE (IF Head(seq) = x THEN 1 ELSE 0) + CountIn(x, Tail(seq))

\* the places an enqueued action is in: waiting on the queue, in the hands
\* of a worker, executed
Occurrences(id) ==
    CountIn(id, action_queue) + CopiesIn(Worker("exec", id), workers)
        + CountIn(id, execLog)

\* C29: every action that has been put on the queue is in exactly one
\* place - waiting, held by one worker, or executed once - and while the
\* system keeps running it is executed in the end.
C29_EveryActionExecutedOnce ==
    /\ [](\A id \in DOMAIN actions : Occurrences(id) = 1)
    /\ \A id \in 1..MaxActions :
          (id \in DOMAIN actions /\ is_running) ~>
              (CountIn(id, execLog) = 1 \/ ~is_running)

\* the running system has executed every action that was put on its queue,
\* each of them once, and nothing is waiting
C29_Witness ==
    /\ is_running
    /\ ~halted
    /\ Len(actions) = MaxActions
    /\ action_queue = << >>
    /\ \A id \in DOMAIN actions : CountIn(id, execLog) = 1

====
